---- MODULE Spec2Model ----
(***************************************************************************)
(* Strategy parameter derivation and prompt rendering of the five trading  *)
(* profiles (ultra-short, conservative, balanced, aggressive, swing-trend).*)
(*                                                                         *)
(* The derivation functions compute in JavaScript numbers, i.e. IEEE-754   *)
(* binary64.  A binary64 magnitude is held here as a little-endian         *)
(* sequence of base-2^10 limbs counting units of 2^-60, so that the        *)
(* product of an integer with a literal such as 0.85 and its rounding to   *)
(* 53 significant bits are computed exactly as the hardware does.          *)
(*                                                                         *)
(* Text of the source that is not ASCII is written as an ASCII gloss; the  *)
(* suffix of a leverage recommendation is written "x".  Every digit, sign, *)
(* dash and percent sign of the source text is kept.  Percentages with one *)
(* decimal (stop-loss, trailing stop) are held in tenths, volatility       *)
(* factors in hundredths.                                                  *)
(***************************************************************************)
EXTENDS Integers, Sequences, FiniteSets, TLC

(***************************************************************************)
(* Bounds of the model.                                                    *)
(***************************************************************************)
MaxLev == 40

\* largest small ceiling tried when a profile is derived twice
MaxPairLev == 12

\* the most negative ceiling tried
MaxNonPositive == 20

\* unrealized profit, in percent, rises in steps of ProfitStep up to MaxProfit
MaxProfit == 125
ProfitStep == 5

\* systemMaxLeverage values tried: every small ceiling, plus the large ones
\* the specification lists.
Inputs == (1..MaxLev) \cup {100, 1000000}

\* the ceilings tried when a profile is derived for two ceilings
PairInputs == (1..MaxPairLev) \cup {25, 100, 1000000}

\* the ceilings that violate the precondition systemMaxLeverage > 0
NonPositiveInputs == (0 - MaxNonPositive)..0

\* the ceilings tried when a position is followed through its stages
MonitorInputs == {1, 25}

(***************************************************************************)
(* IEEE-754 binary64 arithmetic on non-negative magnitudes.                *)
(***************************************************************************)
Base == 1024
LimbBits == 10
FracLimbs == 6
Precision == 53

MathMax(a, b) == IF a >= b THEN a ELSE b

SetMax(S) == CHOOSE x \in S : \A y \in S : y <= x

Limb(x, j) == IF j <= Len(x) THEN x[j] ELSE 0

\* bit i (0-based, least significant first) of the magnitude x
Bit(x, i) == (Limb(x, (i \div LimbBits) + 1) \div (2 ^ (i % LimbBits))) % 2

BitLen(x) ==
  LET S == {i \in 0..(LimbBits * Len(x) - 1) : Bit(x, i) = 1}
  IN  IF S = {} THEN 0 ELSE SetMax(S) + 1

\* exact product of the magnitude c with the integer m >= 0
RECURSIVE MulCarry(_, _, _, _)
MulCarry(c, m, j, carry) ==
  IF j > Len(c)
  THEN IF carry = 0 THEN <<>>
       ELSE <<carry % Base>> \o MulCarry(c, m, j, carry \div Base)
  ELSE LET t == c[j] * m + carry
       IN  <<t % Base>> \o MulCarry(c, m, j + 1, t \div Base)

\* exact sum of two magnitudes
RECURSIVE AddCarry(_, _, _, _)
AddCarry(x, y, j, carry) ==
  IF j > Len(x) /\ j > Len(y)
  THEN IF carry = 0 THEN <<>> ELSE <<carry>>
  ELSE LET t == Limb(x, j) + Limb(y, j) + carry
       IN  <<t % Base>> \o AddCarry(x, y, j + 1, t \div Base)

\* x with its e lowest bits cleared
Truncate(x, e) ==
  [j \in 1..Len(x) |->
     LET lo == LimbBits * (j - 1)
     IN  IF lo + LimbBits <= e THEN 0
         ELSE IF lo >= e THEN x[j]
         ELSE (x[j] \div (2 ^ (e - lo))) * (2 ^ (e - lo))]

Pow2(e) ==
  [j \in 1..((e \div LimbBits) + 1) |->
     IF j = (e \div LimbBits) + 1 THEN 2 ^ (e % LimbBits) ELSE 0]

\* round to nearest, ties to even, at 53 significant bits
Round53(x) ==
  LET L == BitLen(x)
      e == L - Precision
  IN  IF e <= 0 THEN x
      ELSE LET half   == Bit(x, e - 1) = 1
               sticky == \E i \in 0..(e - 2) : Bit(x, i) = 1
               odd    == Bit(x, e) = 1
               t      == Truncate(x, e)
           IN  IF half /\ (sticky \/ odd)
               THEN AddCarry(t, Pow2(e), 1, 0)
               ELSE t

RECURSIVE IntLimbs(_)
IntLimbs(n) == IF n = 0 THEN <<>> ELSE <<n % Base>> \o IntLimbs(n \div Base)

\* the binary64 value of a non-negative integer (exact below 2^53)
FromInt(n) == [j \in 1..FracLimbs |-> 0] \o IntLimbs(n)

RECURSIVE IntValue(_, _)
IntValue(x, j) == IF j > Len(x) THEN 0 ELSE x[j] + Base * IntValue(x, j + 1)

IntPart(x) == IntValue(x, FracLimbs + 1)

FracZero(x) == \A j \in 1..FracLimbs : Limb(x, j) = 0

\* Math.ceil / Math.floor of a non-negative binary64 value
CeilMag(x) == IntPart(x) + (IF FracZero(x) THEN 0 ELSE 1)
FloorMag(x) == IntPart(x)

\* a * c for an integer a and a positive literal c, as a binary64 magnitude
FMul(a, c) == Round53(MulCarry(c, a, 1, 0))

\* x + y for two non-negative binary64 values
FAdd(x, y) == Round53(AddCarry(x, y, 1, 0))

\* Math.ceil(a * c) for an integer a of either sign and a positive literal c
CeilMul(a, c) ==
  IF a >= 0 THEN CeilMag(FMul(a, c)) ELSE 0 - FloorMag(FMul(0 - a, c))

\* Math.ceil(a + d * c) for integers a >= 0, d >= 0 and a positive literal c
CeilAddMul(a, d, c) == CeilMag(FAdd(FromInt(a), FMul(d, c)))

\* Math.ceil(s / 2) for an integer s: s / 2 is exact in binary64
CeilHalf(s) == 0 - ((0 - s) \div 2)

\* the binary64 values of the decimal literals of the source
Lit_0_5   == <<0, 0, 0, 0, 0, 512>>
Lit_0_75  == <<0, 0, 0, 0, 0, 768>>
Lit_0_625 == <<0, 0, 0, 0, 0, 640>>
Lit_0_3   == <<192, 819, 204, 819, 204, 307>>
Lit_0_6   == <<384, 614, 409, 614, 409, 614>>
Lit_0_85  == <<384, 614, 409, 614, 409, 870>>
Lit_0_2   == <<832, 204, 819, 204, 819, 204>>
Lit_0_35  == <<384, 614, 409, 614, 409, 358>>
Lit_0_33  == <<960, 81, 942, 81, 942, 337>>
Lit_0_67  == <<128, 942, 81, 942, 81, 686>>

(***************************************************************************)
(* Template-literal interpolation `${n}` and reading a number back.        *)
(* A string that carries an interpolated number is a sequence of one-      *)
(* character strings.                                                      *)
(***************************************************************************)
Digits == <<"0", "1", "2", "3", "4", "5", "6", "7", "8", "9">>

IsDigit(ch) == \E d \in 1..10 : Digits[d] = ch

DigitVal(ch) == (CHOOSE d \in 1..10 : Digits[d] = ch) - 1

RECURSIVE FormatNat(_)
FormatNat(n) ==
  IF n < 10 THEN <<Digits[n + 1]>>
  ELSE FormatNat(n \div 10) \o <<Digits[(n % 10) + 1]>>

\* `${n}` for an integer n
FormatInt(n) == IF n < 0 THEN <<"-">> \o FormatNat(0 - n) ELSE FormatNat(n)

\* `${v}` for a number v with at most one decimal, given as t = 10 * v
FormatTenths(t) ==
  LET a == IF t < 0 THEN 0 - t ELSE t
      sign == IF t < 0 THEN <<"-">> ELSE <<>>
  IN  IF a % 10 = 0 THEN sign \o FormatNat(a \div 10)
      ELSE sign \o FormatNat(a \div 10) \o <<".">> \o <<Digits[(a % 10) + 1]>>

\* `${n}x`: a leverage recommendation
Times(n) == FormatInt(n) \o <<"x">>

\* value of the digits of s from position i on, acc being the value so far
RECURSIVE ParseDigits(_, _, _)
ParseDigits(s, i, acc) ==
  IF i > Len(s) \/ ~IsDigit(s[i]) THEN acc
  ELSE ParseDigits(s, i + 1, 10 * acc + DigitVal(s[i]))

NaN == "NaN"

\* parseInt(s, 10): optional sign, then the leading digits; NaN without a digit
ParseInt(s) ==
  LET neg == Len(s) >= 1 /\ s[1] = "-"
      from == IF neg THEN 2 ELSE 1
  IN  IF from > Len(s) \/ ~IsDigit(s[from]) THEN NaN
      ELSE IF neg THEN 0 - ParseDigits(s, from, 0) ELSE ParseDigits(s, from, 0)

(***************************************************************************)
(* The derivation functions.                                               *)
(***************************************************************************)
\* variant: the scaled minimum rounded down instead of up
ultraShortLevMin_floor(maxLeverage) ==
  MathMax(3, FloorMag(FMul(maxLeverage, Lit_0_5)))

ultraShortLevMin(maxLeverage) == MathMax(3, CeilMul(maxLeverage, Lit_0_5))

\* variant: the floor added to the scaled maximum instead of bounding it
ultraShortLevMax_sum(maxLeverage) == 5 + CeilMul(maxLeverage, Lit_0_75)

ultraShortLevMax(maxLeverage) == MathMax(5, CeilMul(maxLeverage, Lit_0_75))

ultraShortTrailingStop ==
  [ level1 |-> [ trigger |-> 40,  stopAt |-> 15 ],
    level2 |-> [ trigger |-> 80,  stopAt |-> 40 ],
    level3 |-> [ trigger |-> 150, stopAt |-> 80 ] ]

ultraShortPartialTakeProfit ==
  [ stage1 |-> [ trigger |-> 15, closePercent |-> 50 ],
    stage2 |-> [ trigger |-> 25, closePercent |-> 50 ],
    stage3 |-> [ trigger |-> 35, closePercent |-> 100 ] ]

ultraShortEnableCodeLevelProtection == FALSE

getUltraShortStrategy(maxLeverage) ==
      [ name |-> "ultra-short",
        leverageMin |-> ultraShortLevMin(maxLeverage),
        leverageMax |-> ultraShortLevMax(maxLeverage),
        leverageRecommend |->
          [ normal |-> Times(ultraShortLevMin(maxLeverage)),
            good   |-> Times(MathMax(4, CeilMul(maxLeverage, Lit_0_625))),
            strong |-> Times(ultraShortLevMax(maxLeverage)) ],
        positionSizeMin |-> 18,
        positionSizeMax |-> 25,
        positionSizeRecommend |->
          [ normal |-> "18-20%", good |-> "20-23%", strong |-> "23-25%" ],
        stopLoss |-> [ low |-> -25, mid |-> -20, high |-> -15 ],
        trailingStop |-> ultraShortTrailingStop,
        partialTakeProfit |-> ultraShortPartialTakeProfit,
        peakDrawdownProtection |-> 20,
        volatilityAdjustment |->
          [ highVolatility   |-> [ leverageFactor |-> 70,  positionFactor |-> 80 ],
            normalVolatility |-> [ leverageFactor |-> 100, positionFactor |-> 100 ],
            lowVolatility    |-> [ leverageFactor |-> 110, positionFactor |-> 100 ] ],
        entryCondition |-> "at least 2 timeframes agree, 1-5 minute level first",
        riskTolerance |-> "risk per trade 18-25%, quick in and out",
        tradingStyle |-> "ultra-short, 5 minute cycle, 2% cycle lock-in rule and 30 minute rule",
        enableCodeLevelProtection |-> ultraShortEnableCodeLevelProtection ]

conservativeLevMin(maxLeverage) == MathMax(1, CeilMul(maxLeverage, Lit_0_3))

\* variant: the floor of the ultra-short profile on the maximum
conservativeLevMax_floor5(maxLeverage) ==
  MathMax(5, CeilMul(maxLeverage, Lit_0_6))

conservativeLevMax(maxLeverage) == MathMax(2, CeilMul(maxLeverage, Lit_0_6))

conservativeLevNormal(maxLeverage) == conservativeLevMin(maxLeverage)

conservativeLevGood(maxLeverage) ==
  CeilHalf(conservativeLevMin(maxLeverage) + conservativeLevMax(maxLeverage))

conservativeLevStrong(maxLeverage) == conservativeLevMax(maxLeverage)

\* variant: the third stop line left at the second level's value
conservativeTrailingStop_stale ==
  [ level1 |-> [ trigger |-> 60,  stopAt |-> 20 ],
    level2 |-> [ trigger |-> 120, stopAt |-> 60 ],
    level3 |-> [ trigger |-> 200, stopAt |-> 60 ] ]

conservativeTrailingStop ==
  [ level1 |-> [ trigger |-> 60,  stopAt |-> 20 ],
    level2 |-> [ trigger |-> 120, stopAt |-> 60 ],
    level3 |-> [ trigger |-> 200, stopAt |-> 120 ] ]

conservativePartialTakeProfit ==
  [ stage1 |-> [ trigger |-> 20, closePercent |-> 50 ],
    stage2 |-> [ trigger |-> 30, closePercent |-> 50 ],
    stage3 |-> [ trigger |-> 40, closePercent |-> 100 ] ]

conservativeEnableCodeLevelProtection == FALSE

getConservativeStrategy(maxLeverage) ==
      [ name |-> "conservative",
        leverageMin |-> conservativeLevMin(maxLeverage),
        leverageMax |-> conservativeLevMax(maxLeverage),
        leverageRecommend |->
          [ normal |-> Times(conservativeLevNormal(maxLeverage)),
            good   |-> Times(conservativeLevGood(maxLeverage)),
            strong |-> Times(conservativeLevStrong(maxLeverage)) ],
        positionSizeMin |-> 15,
        positionSizeMax |-> 22,
        positionSizeRecommend |->
          [ normal |-> "15-17%", good |-> "17-20%", strong |-> "20-22%" ],
        stopLoss |-> [ low |-> -35, mid |-> -30, high |-> -25 ],
        trailingStop |-> conservativeTrailingStop,
        partialTakeProfit |-> conservativePartialTakeProfit,
        peakDrawdownProtection |-> 25,
        volatilityAdjustment |->
          [ highVolatility   |-> [ leverageFactor |-> 60,  positionFactor |-> 70 ],
            normalVolatility |-> [ leverageFactor |-> 100, positionFactor |-> 100 ],
            lowVolatility    |-> [ leverageFactor |-> 100, positionFactor |-> 100 ] ],
        entryCondition |-> "at least 3 key timeframes agree, 4 or more is better",
        riskTolerance |-> "risk per trade 15-22%, strict drawdown control",
        tradingStyle |-> "cautious, rather miss a chance than take a risk, capital first",
        enableCodeLevelProtection |-> conservativeEnableCodeLevelProtection ]

balancedLevMin(maxLeverage) == MathMax(2, CeilMul(maxLeverage, Lit_0_6))

balancedLevMax(maxLeverage) == MathMax(3, CeilMul(maxLeverage, Lit_0_85))

balancedLevNormal(maxLeverage) == balancedLevMin(maxLeverage)

balancedLevGood(maxLeverage) ==
  CeilHalf(balancedLevMin(maxLeverage) + balancedLevMax(maxLeverage))

balancedLevStrong(maxLeverage) == balancedLevMax(maxLeverage)

balancedTrailingStop ==
  [ level1 |-> [ trigger |-> 80,  stopAt |-> 30 ],
    level2 |-> [ trigger |-> 150, stopAt |-> 80 ],
    level3 |-> [ trigger |-> 250, stopAt |-> 150 ] ]

balancedPartialTakeProfit ==
  [ stage1 |-> [ trigger |-> 30, closePercent |-> 50 ],
    stage2 |-> [ trigger |-> 40, closePercent |-> 50 ],
    stage3 |-> [ trigger |-> 50, closePercent |-> 100 ] ]

balancedEnableCodeLevelProtection == FALSE

getBalancedStrategy(maxLeverage) ==
      [ name |-> "balanced",
        leverageMin |-> balancedLevMin(maxLeverage),
        leverageMax |-> balancedLevMax(maxLeverage),
        leverageRecommend |->
          [ normal |-> Times(balancedLevNormal(maxLeverage)),
            good   |-> Times(balancedLevGood(maxLeverage)),
            strong |-> Times(balancedLevStrong(maxLeverage)) ],
        positionSizeMin |-> 20,
        positionSizeMax |-> 27,
        positionSizeRecommend |->
          [ normal |-> "20-23%", good |-> "23-25%", strong |-> "25-27%" ],
        stopLoss |-> [ low |-> -30, mid |-> -25, high |-> -20 ],
        trailingStop |-> balancedTrailingStop,
        partialTakeProfit |-> balancedPartialTakeProfit,
        peakDrawdownProtection |-> 30,
        volatilityAdjustment |->
          [ highVolatility   |-> [ leverageFactor |-> 70,  positionFactor |-> 80 ],
            normalVolatility |-> [ leverageFactor |-> 100, positionFactor |-> 100 ],
            lowVolatility    |-> [ leverageFactor |-> 110, positionFactor |-> 100 ] ],
        entryCondition |-> "at least 2 key timeframes agree, 3 or more is better",
        riskTolerance |-> "risk per trade 20-27%, balance risk and return",
        tradingStyle |-> "seize chances while risk is controlled, steady growth",
        enableCodeLevelProtection |-> balancedEnableCodeLevelProtection ]

aggressiveLevMin(maxLeverage) == MathMax(3, CeilMul(maxLeverage, Lit_0_85))

\* variant: the maximum scaled like the minimum
aggressiveLevMax_scaled(maxLeverage) == CeilMul(maxLeverage, Lit_0_85)

aggressiveLevMax(maxLeverage) == maxLeverage

aggressiveLevNormal(maxLeverage) == aggressiveLevMin(maxLeverage)

\* variant: the difference halved instead of the sum
aggressiveLevGood_minus(maxLeverage) ==
  CeilHalf(aggressiveLevMin(maxLeverage) - aggressiveLevMax(maxLeverage))

aggressiveLevGood(maxLeverage) ==
  CeilHalf(aggressiveLevMin(maxLeverage) + aggressiveLevMax(maxLeverage))

aggressiveLevStrong(maxLeverage) == aggressiveLevMax(maxLeverage)

aggressiveTrailingStop ==
  [ level1 |-> [ trigger |-> 100, stopAt |-> 40 ],
    level2 |-> [ trigger |-> 180, stopAt |-> 100 ],
    level3 |-> [ trigger |-> 300, stopAt |-> 180 ] ]

\* variant: the last stage closing a part only
aggressivePartialTakeProfit_partial ==
  [ stage1 |-> [ trigger |-> 25, closePercent |-> 40 ],
    stage2 |-> [ trigger |-> 40, closePercent |-> 60 ],
    stage3 |-> [ trigger |-> 60, closePercent |-> 60 ] ]

aggressivePartialTakeProfit ==
  [ stage1 |-> [ trigger |-> 25, closePercent |-> 40 ],
    stage2 |-> [ trigger |-> 40, closePercent |-> 60 ],
    stage3 |-> [ trigger |-> 60, closePercent |-> 100 ] ]

\* variant: the largest position grown with the ceiling
aggressivePositionSizeMax_scaled(maxLeverage) == MathMax(32, maxLeverage)

\* the literal of the record, written inside the function of maxLeverage
aggressivePositionSizeMax(maxLeverage) == 32

aggressiveEnableCodeLevelProtection == TRUE

getAggressiveStrategy(maxLeverage) ==
      [ name |-> "aggressive",
        leverageMin |-> aggressiveLevMin(maxLeverage),
        leverageMax |-> aggressiveLevMax(maxLeverage),
        leverageRecommend |->
          [ normal |-> Times(aggressiveLevNormal(maxLeverage)),
            good   |-> Times(aggressiveLevGood(maxLeverage)),
            strong |-> Times(aggressiveLevStrong(maxLeverage)) ],
        positionSizeMin |-> 25,
        positionSizeMax |-> aggressivePositionSizeMax(maxLeverage),
        positionSizeRecommend |->
          [ normal |-> "25-28%", good |-> "28-30%", strong |-> "30-32%" ],
        stopLoss |-> [ low |-> -60, mid |-> -80, high |-> -100 ],
        trailingStop |-> aggressiveTrailingStop,
        partialTakeProfit |-> aggressivePartialTakeProfit,
        peakDrawdownProtection |-> 25,
        volatilityAdjustment |->
          [ highVolatility   |-> [ leverageFactor |-> 80,  positionFactor |-> 85 ],
            normalVolatility |-> [ leverageFactor |-> 100, positionFactor |-> 100 ],
            lowVolatility    |-> [ leverageFactor |-> 120, positionFactor |-> 110 ] ],
        entryCondition |-> "at least 2 key timeframes agree",
        riskTolerance |-> "risk per trade up to 25-32%, pursue high return",
        tradingStyle |-> "aggressive, catch market chances fast, maximise return",
        enableCodeLevelProtection |-> aggressiveEnableCodeLevelProtection ]

\* the source writes these expressions in place, without naming them
swingTrendLeverageMin(maxLeverage) == MathMax(2, CeilMul(maxLeverage, Lit_0_2))

swingTrendLeverageMax(maxLeverage) == MathMax(5, CeilMul(maxLeverage, Lit_0_5))

\* variant: the normal tier fixed at the 2x its comment names
swingTrendLeverageRecommend_fixed(maxLeverage) ==
  [ normal |-> Times(2),
    good   |-> Times(MathMax(3, CeilMul(maxLeverage, Lit_0_35))),
    strong |-> Times(MathMax(5, CeilMul(maxLeverage, Lit_0_5))) ]

swingTrendLeverageRecommend(maxLeverage) ==
  [ normal |-> Times(MathMax(2, CeilMul(maxLeverage, Lit_0_2))),
    good   |-> Times(MathMax(3, CeilMul(maxLeverage, Lit_0_35))),
    strong |-> Times(MathMax(5, CeilMul(maxLeverage, Lit_0_5))) ]

swingTrendTrailingStop ==
  [ level1 |-> [ trigger |-> 150, stopAt |-> 80 ],
    level2 |-> [ trigger |-> 300, stopAt |-> 200 ],
    level3 |-> [ trigger |-> 500, stopAt |-> 350 ] ]

swingTrendPartialTakeProfit ==
  [ stage1 |-> [ trigger |-> 50,  closePercent |-> 40 ],
    stage2 |-> [ trigger |-> 80,  closePercent |-> 60 ],
    stage3 |-> [ trigger |-> 120, closePercent |-> 100 ] ]

\* variant: the swing-trend profile left to the AI
swingTrendEnableCodeLevelProtection_off == FALSE

swingTrendEnableCodeLevelProtection == TRUE

getSwingTrendStrategy(maxLeverage) ==
  [ name |-> "swing-trend",
    leverageMin |-> swingTrendLeverageMin(maxLeverage),
    leverageMax |-> swingTrendLeverageMax(maxLeverage),
    leverageRecommend |-> swingTrendLeverageRecommend(maxLeverage),
    positionSizeMin |-> 20,
    positionSizeMax |-> 35,
    positionSizeRecommend |->
      [ normal |-> "20-25%", good |-> "25-30%", strong |-> "30-35%" ],
    stopLoss |-> [ low |-> -90, mid |-> -75, high |-> -55 ],
    trailingStop |-> swingTrendTrailingStop,
    partialTakeProfit |-> swingTrendPartialTakeProfit,
    peakDrawdownProtection |-> 35,
    volatilityAdjustment |->
      [ highVolatility   |-> [ leverageFactor |-> 50,  positionFactor |-> 60 ],
        normalVolatility |-> [ leverageFactor |-> 100, positionFactor |-> 100 ],
        lowVolatility    |-> [ leverageFactor |-> 120, positionFactor |-> 110 ] ],
    entryCondition |-> "1m, 3m, 5m and 15m timeframes must all agree strongly, key indicators in resonance (MACD, RSI, EMA)",
    riskTolerance |-> "risk per trade 20-35%, trend quality over trade frequency",
    tradingStyle |-> "swing trend, 20 minute cycle, wait for quality trend signals, hold for days",
    enableCodeLevelProtection |-> swingTrendEnableCodeLevelProtection ]

(***************************************************************************)
(* The instruction renderers.  A text is the sequence of its lines and a   *)
(* line the sequence of its pieces: a stretch of fixed wording is one      *)
(* piece, a figure is spelt one character per piece.                       *)
(***************************************************************************)
\* the run-time contexts tried; no renderer reads its context
Contexts == {"cycle-5m", "cycle-20m"}

generateUltraShortPrompt(params, context) ==
  << <<>>,
     <<"**monthly return target**: 20-30% to start">>,
     <<"**profit/loss ratio**: >=2:1 (let profits run, cut losing trades fast)">>,
     <<>>,
     <<"[market regime and response - ultra-short strategy]">>,
     <<>>,
     <<"the ultra-short strategy catches short-term swings fast">>,
     <<>>,
     <<"trending market:">>,
     <<"- entry: at least 1 long timeframe (30m or 1h) + 2 middle timeframes (5m, 15m) agree">>,
     <<"- position: standard position">>,
     <<"- leverage: by signal strength">>,
     <<>>,
     <<"ranging market:">>,
     <<"- watch cautiously">>,
     <<"- reduce position to the minimum">>,
     <<"- use the lowest leverage">>,
     <<>>,
     <<"[ultra-short special rules]">>,
     <<"- cycle lock-in rule: within a cycle, profit >2% and <4% closes at once to lock profit">>,
     <<"- 30 minute rule: held over 30 minutes with profit > fee cost and below the trailing line, close conservatively">>,
     <<"- catch short-term swings fast, apply the lock-in rule strictly">>,
     <<>> >>

generateConservativePrompt(params, context) ==
  << <<>>,
     <<"**monthly return target**: 10-20% to start">>,
     <<"**profit/loss ratio**: >=2:1 (let profits run, cut losing trades fast)">>,
     <<>>,
     <<"[market regime and response - conservative strategy]">>,
     <<>>,
     <<"the conservative strategy is more cautious and enters only on high-certainty chances">>,
     <<>>,
     <<"trending market:">>,
     <<"- entry: at least 1 long timeframe (30m or 1h) + 2 middle timeframes (5m, 15m) agree">>,
     <<"- position: standard position">>,
     <<"- leverage: by signal strength, on the conservative side">>,
     <<>>,
     <<"ranging market:">>,
     <<"- entry: at least 3-4 timeframes agree and the long timeframe shows no ranging">>,
     <<"- position: reduce position to the minimum">>,
     <<"- leverage: use the lowest leverage">>,
     <<"- frequency: stay out where possible">>,
     <<>>,
     <<"[conservative strategy summary]">>,
     <<"- principle: layered timeframes, long for trend, middle to verify, short to enter">>,
     <<"- seize trending markets, let profits run (long timeframe trend clear)">>,
     <<"- defend in ranging markets, avoid frequent trades (long timeframe ranging)">>,
     <<"- identify the regime and adapt (long timeframe first)">>,
     <<"- wait for quality chances, never force a trade (stay out without a long timeframe trend)">>,
     <<"- rather miss a chance than take a risk">>,
     <<>> >>

generateBalancedPrompt(params, context) ==
  << <<>>,
     <<"**monthly return target**: 20-40% to start">>,
     <<"**profit/loss ratio**: >=2:1 (let profits run, cut losing trades fast)">>,
     <<>>,
     <<"[market regime and response - balanced strategy]">>,
     <<>>,
     <<"the balanced strategy takes part in trending markets and defends in ranging markets">>,
     <<>>,
     <<"trending market:">>,
     <<"- entry: at least 1 long timeframe (30m or 1h) + 2 middle timeframes (5m, 15m) agree">>,
     <<"- position: standard position">>,
     <<"- leverage: by signal strength">>,
     <<>>,
     <<"ranging market:">>,
     <<"- entry: at least 3-4 timeframes agree and the long timeframe shows no ranging">>,
     <<"- position: reduce position to the minimum">>,
     <<"- leverage: use the lowest leverage">>,
     <<>>,
     <<"[balanced strategy summary]">>,
     <<"- principle: layered timeframes: long for trend, middle to verify, short to enter">>,
     <<"- seize trending markets, let profits run (long timeframe trend clear)">>,
     <<"- defend in ranging markets, avoid frequent trades (long timeframe ranging)">>,
     <<"- identify the regime and adapt (long timeframe first)">>,
     <<"- wait for quality chances, never force a trade (stay out without a long timeframe trend)">>,
     <<>> >>

generateAggressivePrompt(params, context) ==
  << <<>>,
     <<"**monthly return target**: 30-50% (accumulated from frequent small sure profits)">>,
     <<"**profit/loss ratio**: >=2:1 (frequent profit, ratio lowered moderately, offset by win rate)">>,
     <<>>,
     <<"[market regime and response - aggressive strategy core]">>,
     <<>>,
     <<"core tension of the aggressive strategy: attack in trending markets, defend strictly in ranging markets">>,
     <<>>,
     <<"trending market:">>,
     <<"- entry: [must] at least 1 long timeframe (30m or 1h) trend clear + at least 1 middle timeframe (5m or 15m) agrees with it">>,
     <<"- position: use a larger position (", "2", "8", "-", "3", "2", "%", "), ride the trend">>,
     <<"- leverage: actively use higher leverage (", "2", "2", "-", "2", "5", "x", "), seize the chance">>,
     <<"- reminder: trending markets are the core profit source, but the long timeframe must confirm!">>,
     <<>>,
     <<"ranging market:">>,
     <<"- [mandatory] no frequent opening in ranging markets, the main source of loss!">>,
     <<"- entry: [must] at least 1 long timeframe (30m or 1h) + 2 middle timeframes (5m, 15m) fully agree">>,
     <<"- position: cut the position sharply (", "1", "5", "-", "2", "0", "%", "), avoid ranging stop-outs">>,
     <<"- leverage: lower the leverage (", "1", "5", "-", "1", "8", "x", "), control risk">>,
     <<"- warning: frequent trades in ranging markets = frequent stops + fee losses, hold back!">>,
     <<>>,
     <<"[aggressive strategy reminders]">>,
     <<"- principle: long timeframe confirms trend, middle verifies signal, short finds entry">>,
     <<"- trending attack = long timeframe trend clear + large position + high leverage + adding actively">>,
     <<"- ranging defence = long timeframe ranging + small position + low leverage + high standard">>,
     <<"- key to success: do the right thing in the right market (attack trending, defend ranging)">>,
     <<"- root of failure: opening on short timeframes alone (1m, 3m) = frequent stops">>,
     <<"- iron rule: without a clear long timeframe (30m, 1h) trend never open on a short timeframe signal!">>,
     <<>> >>

\* wording of the three stop-loss bucket lines and of a trailing-stop line
BucketRangeWords == "x leverage: stop loss at a loss of "
BucketAboveWords == "x leverage and above: stop loss at a loss of "
TrailingWords == "% the position is closed on a fall back to "

\* "- Level k: ..." of the swing-trend text
TrailingLine(k, level) ==
  <<"- Level ">> \o FormatInt(k) \o <<": once the peak reaches ">>
    \o FormatTenths(level.trigger) \o <<TrailingWords>>
    \o FormatTenths(level.stopAt) \o <<"%">>

generateSwingTrendPrompt(params, context) ==
  LET lowEnd  == CeilAddMul(params.leverageMin,
                            params.leverageMax - params.leverageMin, Lit_0_33)
      midEnd  == CeilAddMul(params.leverageMin,
                            params.leverageMax - params.leverageMin, Lit_0_67)
  IN
  << <<>>,
     <<"**monthly return target**: 20-30% to start">>,
     <<"**profit/loss ratio**: >=2:1 (let profits run, cut losing trades fast)">>,
     <<>>,
     <<"[market regime and response - swing-trend strategy]">>,
     <<>>,
     <<"the swing-trend strategy catches mid-term trends, holding for up to days">>,
     <<>>,
     <<"[special note - automated monitor protection]">>,
     <<"this strategy enables automated monitoring of stop loss and trailing stop (checked every 10 seconds):">>,
     <<"- AI only opens positions and analyses the market">>,
     <<"- closing is done entirely by the automated monitor">>,
     <<"- AI must not call closePosition">>,
     <<>>,
     <<"automated monitor stop-loss rules (by leverage):">> >>
  \o
  << <<"- ">> \o FormatInt(params.leverageMin) \o <<"-">> \o FormatInt(lowEnd)
       \o <<BucketRangeWords>> \o FormatTenths(params.stopLoss.low) \o <<"%">>,
     <<"- ">> \o FormatInt(lowEnd + 1) \o <<"-">> \o FormatInt(midEnd)
       \o <<BucketRangeWords>> \o FormatTenths(params.stopLoss.mid) \o <<"%">>,
     <<"- ">> \o FormatInt(midEnd + 1)
       \o <<BucketAboveWords>> \o FormatTenths(params.stopLoss.high) \o <<"%">>,
     <<>>,
     <<"automated monitor trailing-stop rules (3 levels):">>,
     TrailingLine(1, params.trailingStop.level1),
     TrailingLine(2, params.trailingStop.level2),
     TrailingLine(3, params.trailingStop.level3) >>
  \o
  << <<>>,
     <<"[AI duties]">>,
     <<"- focus on market analysis and opening decisions">>,
     <<"- watch position state and report it">>,
     <<"- analyse indicators and trend health">>,
     <<"- must not close positions">>,
     <<"- let the automated monitor handle all closing">>,
     <<>>,
     <<"trending market:">>,
     <<"- entry: 1m, 3m, 5m and 15m timeframes must all agree strongly">>,
     <<"- position: standard position (", "2", "0", "-", "3", "5", "%", ")">>,
     <<"- leverage: low leverage (", "2", "-", "5", "x", ")">>,
     <<"- hold patiently, let profits run">>,
     <<>>,
     <<"ranging market:">>,
     <<"- defend strictly">>,
     <<"- raise the entry standard">>,
     <<"- lower position and leverage">>,
     <<>>,
     <<"[swing-trend strategy summary]">>,
     <<"- principle: wait for quality trend signals, holding for up to days">>,
     <<"- 20 minute cycle, trend quality over trade frequency">>,
     <<"- the automated monitor protects profit, AI focuses on opening and analysis">>,
     <<"- let profits run, do not close lightly">>,
     <<>> >>

(***************************************************************************)
(* The state machine: a caller holding a system leverage ceiling derives   *)
(* the record of one profile and then renders that record with the         *)
(* renderer of the same profile.                                           *)
(***************************************************************************)
VARIABLES pc, systemMaxLeverage, profile, params, text

\* a second call of the same profile's functions, for another ceiling
VARIABLES otherMaxLeverage, otherParams, otherText

\* a position held under the record: its unrealized profit in percent, the
\* number of partial-take-profit stages executed, and the share of the
\* original position still open, in hundredths of a percent
VARIABLES unrealizedProfit, stagesExecuted, remainingPosition

secondCall == <<otherMaxLeverage, otherParams, otherText>>

position == <<unrealizedProfit, stagesExecuted, remainingPosition>>

vars == <<pc, systemMaxLeverage, profile, params, text, secondCall, position>>

FullPosition == 10000

Profiles == {"ultra-short", "conservative", "balanced", "aggressive", "swing-trend"}

NoParams == "none"

\* nothing derived or rendered yet, the position whole
InitCalls ==
  /\ pc = "start"
  /\ profile = "none"
  /\ params = NoParams
  /\ text = <<>>
  /\ otherParams = NoParams
  /\ otherText = <<>>
  /\ unrealizedProfit = 0
  /\ stagesExecuted = 0
  /\ remainingPosition = FullPosition

Init ==
  /\ systemMaxLeverage \in Inputs
  /\ otherMaxLeverage = systemMaxLeverage
  /\ InitCalls

Derive(p, record) ==
  /\ pc = "start"
  /\ profile' = p
  /\ params' = record
  /\ pc' = "derived"
  /\ UNCHANGED <<systemMaxLeverage, text, secondCall, position>>

Render(p, rendered) ==
  /\ pc = "derived"
  /\ profile = p
  /\ text' = rendered
  /\ pc' = "rendered"
  /\ UNCHANGED <<systemMaxLeverage, profile, params, secondCall, position>>

CallGetUltraShortStrategy ==
  Derive("ultra-short", getUltraShortStrategy(systemMaxLeverage))

CallGetConservativeStrategy ==
  Derive("conservative", getConservativeStrategy(systemMaxLeverage))

CallGetBalancedStrategy ==
  Derive("balanced", getBalancedStrategy(systemMaxLeverage))

CallGetAggressiveStrategy ==
  Derive("aggressive", getAggressiveStrategy(systemMaxLeverage))

CallGetSwingTrendStrategy ==
  Derive("swing-trend", getSwingTrendStrategy(systemMaxLeverage))

CallGenerateUltraShortPrompt ==
  \E context \in Contexts :
    Render("ultra-short", generateUltraShortPrompt(params, context))

CallGenerateConservativePrompt ==
  \E context \in Contexts :
    Render("conservative", generateConservativePrompt(params, context))

CallGenerateBalancedPrompt ==
  \E context \in Contexts :
    Render("balanced", generateBalancedPrompt(params, context))

CallGenerateAggressivePrompt ==
  \E context \in Contexts :
    Render("aggressive", generateAggressivePrompt(params, context))

CallGenerateSwingTrendPrompt ==
  \E context \in Contexts :
    Render("swing-trend", generateSwingTrendPrompt(params, context))

Next ==
  \/ CallGetUltraShortStrategy
  \/ CallGetConservativeStrategy
  \/ CallGetBalancedStrategy
  \/ CallGetAggressiveStrategy
  \/ CallGetSwingTrendStrategy
  \/ CallGenerateUltraShortPrompt
  \/ CallGenerateConservativePrompt
  \/ CallGenerateBalancedPrompt
  \/ CallGenerateAggressivePrompt
  \/ CallGenerateSwingTrendPrompt

Spec == Init /\ [][Next]_vars

Derived == pc \in {"derived", "rendered"}

Rendered == pc = "rendered"

(***************************************************************************)
(* A non-positive ceiling: the same calls, on inputs outside the contract. *)
(***************************************************************************)
InitNonPositive ==
  /\ systemMaxLeverage \in NonPositiveInputs
  /\ otherMaxLeverage = systemMaxLeverage
  /\ InitCalls

SpecNonPositive == InitNonPositive /\ [][Next]_vars

(***************************************************************************)
(* Two ceilings: after the first record is derived and rendered, the       *)
(* caller derives and renders the same profile for a second ceiling.       *)
(***************************************************************************)
InitPair ==
  /\ systemMaxLeverage \in PairInputs
  /\ otherMaxLeverage \in PairInputs
  /\ InitCalls

DeriveAgain(p, record) ==
  /\ pc = "rendered"
  /\ profile = p
  /\ otherParams' = record
  /\ pc' = "derivedAgain"
  /\ UNCHANGED <<systemMaxLeverage, profile, params, text,
                 otherMaxLeverage, otherText, position>>

RenderAgain(p, rendered) ==
  /\ pc = "derivedAgain"
  /\ profile = p
  /\ otherText' = rendered
  /\ pc' = "renderedAgain"
  /\ UNCHANGED <<systemMaxLeverage, profile, params, text,
                 otherMaxLeverage, otherParams, position>>

CallGetUltraShortStrategyAgain ==
  DeriveAgain("ultra-short", getUltraShortStrategy(otherMaxLeverage))

CallGetConservativeStrategyAgain ==
  DeriveAgain("conservative", getConservativeStrategy(otherMaxLeverage))

CallGetBalancedStrategyAgain ==
  DeriveAgain("balanced", getBalancedStrategy(otherMaxLeverage))

CallGetAggressiveStrategyAgain ==
  DeriveAgain("aggressive", getAggressiveStrategy(otherMaxLeverage))

CallGetSwingTrendStrategyAgain ==
  DeriveAgain("swing-trend", getSwingTrendStrategy(otherMaxLeverage))

CallGenerateUltraShortPromptAgain ==
  \E context \in Contexts :
    RenderAgain("ultra-short", generateUltraShortPrompt(otherParams, context))

CallGenerateConservativePromptAgain ==
  \E context \in Contexts :
    RenderAgain("conservative", generateConservativePrompt(otherParams, context))

CallGenerateBalancedPromptAgain ==
  \E context \in Contexts :
    RenderAgain("balanced", generateBalancedPrompt(otherParams, context))

CallGenerateAggressivePromptAgain ==
  \E context \in Contexts :
    RenderAgain("aggressive", generateAggressivePrompt(otherParams, context))

CallGenerateSwingTrendPromptAgain ==
  \E context \in Contexts :
    RenderAgain("swing-trend", generateSwingTrendPrompt(otherParams, context))

NextPair ==
  \/ CallGetUltraShortStrategy
  \/ CallGetConservativeStrategy
  \/ CallGetBalancedStrategy
  \/ CallGetAggressiveStrategy
  \/ CallGetSwingTrendStrategy
  \/ CallGenerateUltraShortPrompt
  \/ CallGenerateConservativePrompt
  \/ CallGenerateBalancedPrompt
  \/ CallGenerateAggressivePrompt
  \/ CallGenerateSwingTrendPrompt
  \/ CallGetUltraShortStrategyAgain
  \/ CallGetConservativeStrategyAgain
  \/ CallGetBalancedStrategyAgain
  \/ CallGetAggressiveStrategyAgain
  \/ CallGetSwingTrendStrategyAgain
  \/ CallGenerateUltraShortPromptAgain
  \/ CallGenerateConservativePromptAgain
  \/ CallGenerateBalancedPromptAgain
  \/ CallGenerateAggressivePromptAgain
  \/ CallGenerateSwingTrendPromptAgain

SpecPair == InitPair /\ [][NextPair]_vars

DerivedTwice == pc \in {"derivedAgain", "renderedAgain"}

RenderedTwice == pc = "renderedAgain"

(***************************************************************************)
(* A position followed through the partial-take-profit stages of its       *)
(* record: its unrealized profit rises, and each stage, once the profit    *)
(* has reached its trigger and the stages before it have run, closes       *)
(* closePercent of what is still open.                                     *)
(***************************************************************************)
InitMonitor ==
  /\ systemMaxLeverage \in MonitorInputs
  /\ otherMaxLeverage = systemMaxLeverage
  /\ InitCalls

ProfitRises ==
  /\ pc = "derived"
  /\ unrealizedProfit < MaxProfit
  /\ unrealizedProfit' = unrealizedProfit + ProfitStep
  /\ UNCHANGED <<pc, systemMaxLeverage, profile, params, text, secondCall,
                 stagesExecuted, remainingPosition>>

ExecuteStage(k, stage) ==
  /\ pc = "derived"
  /\ stagesExecuted = k - 1
  /\ unrealizedProfit >= stage.trigger
  /\ remainingPosition' =
       remainingPosition - (remainingPosition * stage.closePercent) \div 100
  /\ stagesExecuted' = k
  /\ UNCHANGED <<pc, systemMaxLeverage, profile, params, text, secondCall,
                 unrealizedProfit>>

ExecuteStage1 == pc = "derived" /\ ExecuteStage(1, params.partialTakeProfit.stage1)

ExecuteStage2 == pc = "derived" /\ ExecuteStage(2, params.partialTakeProfit.stage2)

ExecuteStage3 == pc = "derived" /\ ExecuteStage(3, params.partialTakeProfit.stage3)

NextMonitor ==
  \/ CallGetUltraShortStrategy
  \/ CallGetConservativeStrategy
  \/ CallGetBalancedStrategy
  \/ CallGetAggressiveStrategy
  \/ CallGetSwingTrendStrategy
  \/ ProfitRises
  \/ ExecuteStage1
  \/ ExecuteStage2
  \/ ExecuteStage3

SpecMonitor == InitMonitor /\ [][NextMonitor]_vars

\* the share of the original position closed so far, in hundredths of a percent
ClosedShare == FullPosition - remainingPosition

(***************************************************************************)
(* Reading a rendered text.                                                *)
(***************************************************************************)
HasLine(t, line) == \E i \in 1..Len(t) : t[i] = line

HasPiece(line, piece) == \E i \in 1..Len(line) : line[i] = piece

\* the numbers written in a line, in order: every maximal run of digits
RECURSIVE NumbersFrom(_, _)
NumbersFrom(line, i) ==
  IF i > Len(line) THEN <<>>
  ELSE IF IsDigit(line[i]) /\ (i = 1 \/ ~IsDigit(line[i - 1]))
       THEN <<ParseDigits(line, i, 0)>> \o NumbersFrom(line, i + 1)
       ELSE NumbersFrom(line, i + 1)

NumbersOf(line) == NumbersFrom(line, 1)

\* the leverage sub-range boundaries the text prints for the stop-loss buckets
BucketBoundaries(t) ==
  {NumbersOf(t[i])[1] : i \in {k \in 1..Len(t) :
       HasPiece(t[k], BucketRangeWords) \/ HasPiece(t[k], BucketAboveWords)}}
  \cup
  {NumbersOf(t[i])[2] : i \in {k \in 1..Len(t) : HasPiece(t[k], BucketRangeWords)}}

StatesMonitorCloses(t) ==
  HasLine(t, <<"- closing is done entirely by the automated monitor">>)

ForbidsAIClosing(t) ==
  \/ HasLine(t, <<"- AI must not call closePosition">>)
  \/ HasLine(t, <<"- must not close positions">>)

ShowsThresholds(t) ==
  /\ \E i \in 1..Len(t) : HasPiece(t[i], BucketRangeWords)
  /\ \E i \in 1..Len(t) : HasPiece(t[i], TrailingWords)

\* ceil(m * num / den) in exact integer arithmetic
ExactCeil(m, num, den) == (m * num + den - 1) \div den

(***************************************************************************)
(* Properties.                                                             *)
(***************************************************************************)

\* C1: for every profile and every positive integer systemMaxLeverage the
\* derived record has leverageMin >= 1 and leverageMin <= leverageMax.
C1_MinWithinMax ==
  Derived => /\ params.leverageMin >= 1
             /\ params.leverageMin <= params.leverageMax

\* C2 as stated: for every profile and every positive integer
\* systemMaxLeverage, 1 <= leverageMin <= leverageMax <= systemMaxLeverage.
C2_WithinSystemMax ==
  Derived => /\ 1 <= params.leverageMin
             /\ params.leverageMin <= params.leverageMax
             /\ params.leverageMax <= systemMaxLeverage

\* the largest absolute floor a profile puts on a leverage bound
LargestFloor(p) ==
  CASE p = "ultra-short"  -> 5
    [] p = "conservative" -> 2
    [] p = "balanced"     -> 3
    [] p = "aggressive"   -> 3
    [] p = "swing-trend"  -> 5

\* C2 as amended: whenever systemMaxLeverage is at least the profile's largest
\* floor, 1 <= leverageMin <= leverageMax <= systemMaxLeverage.
C2_WithinSystemMaxAboveFloor ==
  (Derived /\ systemMaxLeverage >= LargestFloor(profile))
    => /\ 1 <= params.leverageMin
       /\ params.leverageMin <= params.leverageMax
       /\ params.leverageMax <= systemMaxLeverage

C2_Witness ==
  /\ Derived
  /\ profile = "ultra-short"
  /\ systemMaxLeverage = 5
  /\ params.leverageMin = 3
  /\ params.leverageMax = 5

\* the absolute floor of a profile on leverageMax; aggressive has none
ProfileFloor(p) ==
  CASE p = "ultra-short"  -> 5
    [] p = "conservative" -> 2
    [] p = "balanced"     -> 3
    [] p = "aggressive"   -> 0
    [] p = "swing-trend"  -> 5

\* C3: for every profile and every positive integer systemMaxLeverage,
\* leverageMax <= max(systemMaxLeverage, profileFloor).
C3_MaxWithinCeilingOrFloor ==
  Derived => params.leverageMax <= MathMax(systemMaxLeverage, ProfileFloor(profile))

C3_Witness ==
  /\ Derived
  /\ profile = "balanced"
  /\ systemMaxLeverage = 2
  /\ params.leverageMax = 3

\* C4: the aggressive profile's leverageMax equals systemMaxLeverage exactly.
C4_AggressiveMaxIsCeiling ==
  (Derived /\ profile = "aggressive") => params.leverageMax = systemMaxLeverage

C4_Witness ==
  /\ Derived
  /\ profile = "aggressive"
  /\ systemMaxLeverage = 25
  /\ params.leverageMax = 25

C6_RecommendEnds ==
  Derived => /\ ParseInt(params.leverageRecommend.normal) = params.leverageMin
             /\ ParseInt(params.leverageRecommend.strong) = params.leverageMax

C6_Witness ==
  /\ Derived
  /\ profile = "swing-trend"
  /\ systemMaxLeverage = 30
  /\ params.leverageRecommend.normal = <<"6", "x">>
  /\ params.leverageRecommend.strong = <<"1", "5", "x">>

\* C7: the recommended leverage never decreases across the signal tiers:
\* value(normal) <= value(good) <= value(strong).
C7_RecommendMonotone ==
  Derived => /\ ParseInt(params.leverageRecommend.normal)
                  <= ParseInt(params.leverageRecommend.good)
             /\ ParseInt(params.leverageRecommend.good)
                  <= ParseInt(params.leverageRecommend.strong)

\* C8: enableCodeLevelProtection is false for ultra-short, conservative and
\* balanced, true for swing-trend and aggressive, whatever the input.
C8_ProtectionFlag ==
  Derived => (params.enableCodeLevelProtection
                <=> profile \in {"swing-trend", "aggressive"})

C8_Witness ==
  /\ Derived
  /\ profile = "aggressive"
  /\ params.enableCodeLevelProtection
  /\ systemMaxLeverage = 1

\* C9: the text rendered from a profile's record says that the automated
\* monitor closes positions, forbids the AI from closing, and shows the
\* stop-loss and trailing-stop thresholds, if and only if the record's
\* enableCodeLevelProtection is true.
C9_TextMatchesEnforcementMode ==
  Rendered => /\ StatesMonitorCloses(text) <=> params.enableCodeLevelProtection
              /\ ForbidsAIClosing(text) <=> params.enableCodeLevelProtection
              /\ ShowsThresholds(text) <=> params.enableCodeLevelProtection

\* C10: every leverage sub-range boundary printed for the three stop-loss
\* buckets lies within [leverageMin, leverageMax] of the record.
C10_BucketBoundariesWithinRange ==
  Rendered => \A b \in BucketBoundaries(text) :
                 params.leverageMin <= b /\ b <= params.leverageMax

\* C11: the three trailing-stop levels strictly increase in trigger and in
\* stopAt from level1 to level3, and stopAt < trigger at every level.
C11_TrailingStopLevels ==
  Derived =>
    LET l1 == params.trailingStop.level1
        l2 == params.trailingStop.level2
        l3 == params.trailingStop.level3
    IN  /\ l1.trigger < l2.trigger /\ l2.trigger < l3.trigger
        /\ l1.stopAt < l2.stopAt /\ l2.stopAt < l3.stopAt
        /\ l1.stopAt < l1.trigger
        /\ l2.stopAt < l2.trigger
        /\ l3.stopAt < l3.trigger

C11_Witness ==
  /\ Derived
  /\ profile = "conservative"
  /\ params.trailingStop.level2 = [trigger |-> 120, stopAt |-> 60]
  /\ params.trailingStop.level3 = [trigger |-> 200, stopAt |-> 120]

\* C12: the partial-take-profit triggers strictly increase from stage1 to
\* stage3, and stage3 closes exactly 100 percent.
C12_TakeProfitStages ==
  Derived =>
    /\ params.partialTakeProfit.stage1.trigger
         < params.partialTakeProfit.stage2.trigger
    /\ params.partialTakeProfit.stage2.trigger
         < params.partialTakeProfit.stage3.trigger
    /\ params.partialTakeProfit.stage3.closePercent = 100

C12_Witness ==
  /\ Derived
  /\ profile = "aggressive"
  /\ params.partialTakeProfit.stage2.trigger = 40
  /\ params.partialTakeProfit.stage3 = [trigger |-> 60, closePercent |-> 100]

\* the fields of a record that the claim holds fixed across ceilings
TableFields ==
  {"stopLoss", "trailingStop", "partialTakeProfit", "peakDrawdownProtection",
   "volatilityAdjustment", "positionSizeMin", "positionSizeMax",
   "positionSizeRecommend", "enableCodeLevelProtection"}

\* C13: the records a profile derives for two ceilings agree on every field
\* other than leverageMin, leverageMax and leverageRecommend.
C13_TablesIndependentOfCeiling ==
  DerivedTwice => \A f \in TableFields : params[f] = otherParams[f]

C13_Witness ==
  /\ DerivedTwice
  /\ profile = "aggressive"
  /\ systemMaxLeverage = 5
  /\ otherMaxLeverage = 1000000
  /\ params.leverageMax # otherParams.leverageMax
  /\ params.positionSizeMax = otherParams.positionSizeMax

\* C14: for a non-positive systemMaxLeverage no derivation function returns
\* a zero or negative leverageMin or leverageMax (no derivation function has
\* an error path, so every call returns a record).
C14_NonPositiveCeilingBounds ==
  Derived => params.leverageMin >= 1 /\ params.leverageMax >= 1

\* the lines of a text that name the leverage to use, "(22-25x)"
LeverageLines(t) == {i \in 1..Len(t) : HasPiece(t[i], "x")}

\* the lines of a text that name the position size to use, "(28-32%)"
PositionLines(t) ==
  {i \in 1..Len(t) : /\ HasPiece(t[i], "%")
                     /\ ~HasPiece(t[i], BucketRangeWords)
                     /\ ~HasPiece(t[i], BucketAboveWords)
                     /\ ~HasPiece(t[i], TrailingWords)}

FiguresOf(t, lineSet) ==
  UNION {{NumbersOf(t[i])[k] : k \in 1..Len(NumbersOf(t[i]))} : i \in lineSet}

LeverageFigures(t) == FiguresOf(t, LeverageLines(t)) \cup BucketBoundaries(t)

PositionFigures(t) == FiguresOf(t, PositionLines(t))

\* C15: every leverage figure the rendered text names lies within
\* [leverageMin, leverageMax] of the record and every position-size figure
\* within [positionSizeMin, positionSizeMax], and two records of a profile
\* that differ in leverageMin or leverageMax yield texts that differ in
\* their leverage figures.
C15_FiguresFromRecord ==
  /\ (pc \in {"rendered", "derivedAgain", "renderedAgain"}) =>
        /\ \A n \in LeverageFigures(text) :
              params.leverageMin <= n /\ n <= params.leverageMax
        /\ \A n \in PositionFigures(text) :
              params.positionSizeMin <= n /\ n <= params.positionSizeMax
  /\ (/\ RenderedTwice
      /\ \/ params.leverageMin # otherParams.leverageMin
         \/ params.leverageMax # otherParams.leverageMax)
        => LeverageFigures(text) # LeverageFigures(otherText)

\* C16: when each stage closes its closePercent of the remaining position,
\* the closed share of the original position is exactly 100 percent once
\* stage2 has executed, and never exceeds 100 percent.
C16_ClosedAfterStage2 ==
  /\ stagesExecuted >= 2 => ClosedShare = FullPosition
  /\ ClosedShare <= FullPosition

\* C17: for two ceilings m1 <= m2 no derived bound decreases: leverageMin,
\* leverageMax and the value of leverageRecommend.good at m1 are each at
\* most their value at m2.
C17_BoundsMonotone ==
  (DerivedTwice /\ systemMaxLeverage <= otherMaxLeverage) =>
    /\ params.leverageMin <= otherParams.leverageMin
    /\ params.leverageMax <= otherParams.leverageMax
    /\ ParseInt(params.leverageRecommend.good)
         <= ParseInt(otherParams.leverageRecommend.good)

C17_Witness ==
  /\ DerivedTwice
  /\ profile = "balanced"
  /\ systemMaxLeverage = 7
  /\ otherMaxLeverage = 8
  /\ params.leverageMin = otherParams.leverageMin
  /\ params.leverageMax = 6
  /\ otherParams.leverageMax = 7
  /\ ParseInt(params.leverageRecommend.good) = 6
  /\ ParseInt(otherParams.leverageRecommend.good) = 6

====
